---------------------------- MODULE Spec2Model ----------------------------
(***************************************************************************)
(* Video sequencing of the course-curation application (src/app.py).       *)
(*                                                                         *)
(* The stored state is the relational store: the users and courses tables, *)
(* the videos table and the videos_courses join table (one row per         *)
(* membership, carrying video_seq).  Every request handler is cut at its   *)
(* database statements: one step per query, one step per commit.  A        *)
(* request runs on a worker; a worker's loaded objects (its SQLAlchemy     *)
(* session) are its locals.                                                *)
(*                                                                         *)
(* One worker, one request at a time:                                      *)
(*   Spec        any add, resequence or remove form, from any session      *)
(*   SpecOwner   the add, resequence and remove forms the pages submit     *)
(*   SpecMeta    add forms whose video metadata varies                     *)
(*   SpecBrowse  courses_add, courses_search, search_videos, add, remove   *)
(*   SpecDemo    make_demo_acct among adds and removes                     *)
(* Two workers interleaving their statements:                              *)
(*   SpecConc    the add, resequence and remove forms the pages submit     *)
(*   SpecAdd     add forms alone                                           *)
(*   SpecCourses courses_add forms alone                                   *)
(*   SpecRemove  remove forms alone, on two courses sharing a video        *)
(*   SpecSwap    resequence forms and the edit page of a course of videos  *)
(***************************************************************************)
EXTENDS Integers, FiniteSets, Sequences

\* ------------------------------------------------------------------ bounds
\* SpecOwner: one worker, the requests the pages submit
MaxVideoId == 3      \* serial ids handed out by the videos table
MaxVcId    == 3      \* serial ids handed out by the videos_courses table
NumYt      == 3      \* provider video ids that requests name
\* Spec: one worker, any request
AnyVideoId == 2
AnyVcId    == 3
AnyYt      == 2
MaxSeq     == 2      \* largest video-seq value a forged form carries
\* SpecConc: two workers, the requests the pages submit
ConcVideoId == 2
ConcVcId    == 2
ConcYt      == 2
\* SpecBrowse: one worker creating and searching courses and searching videos
MaxCourseId   == 3   \* serial ids handed out by the courses table
BrowseVideoId == 2
BrowseVcId    == 2
BrowseYt      == 1
\* SpecSwap: two workers moving and listing the videos of one course
SwapLen == 3         \* videos of the course
\* SpecDemo: one worker, the demo account and the requests the pages submit
MaxUserId   == 4     \* serial ids handed out by the users table
DemoVideoId == 6
DemoVcId    == 6
DemoYt      == 1     \* provider ids, of the demo's, that add forms name
\* SpecCourses: two workers creating courses
ConcCourseId == 4    \* serial ids handed out by the courses table
\* SpecMeta: one worker, add forms carrying any metadata
MetaVideoId == 2
MetaVcId    == 3
MetaYt      == 2

Workers   == {1, 2}
Users     == {1, 2}
Anonymous == 0                          \* g.user = None
temp_seq_1 == -1                        \* the placeholder of courses_resequence
CourseIds == {1, 2, 3}                  \* ids a URL may carry; 3 names no course
Actors    == Users \cup {Anonymous}       \* who a session may name

VARIABLES
    users,          \* rows of the users table: [id, username]
    nextUserId,     \* next serial id of users
    courses,        \* rows of the courses table: [id, creator_id, title]
    nextCourseId,   \* next serial id of courses
    videos,         \* rows of the videos table: [id, yt_video_id, title]
    vcs,            \* rows of videos_courses: [id, course_id, video_id, video_seq]
    nextVideoId,    \* next serial id of videos
    nextVcId,       \* next serial id of videos_courses
    pc,             \* per worker: the statement its request is at
    req,            \* per worker: the request being served
    loc,            \* per worker: what the request's session holds
    resp,           \* per worker: the response of the request
    pre             \* the tables as they were when the request being served
                    \* began (recorded when one worker serves the requests)

vars == <<users, nextUserId, courses, nextCourseId, videos, vcs, nextVideoId, nextVcId, pc, req, loc, resp, pre>>

\* ------------------------------------------------------------ the requests
NoReq ==
    [op |-> "none", user |-> Anonymous, course_id |-> 0, yt_video_id |-> 0,
     v_title |-> "none", video_id |-> 0, vc_id |-> 0, video_seq |-> 0, arrow |-> 0,
     title |-> <<>>, phrase |-> <<>>, keyword |-> "absent"]

AddReq(u, c, y, t) ==
    [NoReq EXCEPT !.op = "add", !.user = u, !.course_id = c, !.yt_video_id = y,
                  !.v_title = t]

ReseqReq(u, c, v, k, s, a) ==
    [NoReq EXCEPT !.op = "resequence", !.user = u, !.course_id = c,
                  !.video_id = v, !.vc_id = k, !.video_seq = s, !.arrow = a]

RemoveReq(u, c, v, s) ==
    [NoReq EXCEPT !.op = "remove", !.user = u, !.course_id = c,
                  !.video_id = v, !.video_seq = s]

CoursesAddReq(u, t) == [NoReq EXCEPT !.op = "courses_add", !.user = u, !.title = t]

CoursesSearchReq(u, p) == [NoReq EXCEPT !.op = "courses_search", !.user = u, !.phrase = p]

SearchVideosReq(u, k) == [NoReq EXCEPT !.op = "search_videos", !.user = u, !.keyword = k]

EditReq(u, c) == [NoReq EXCEPT !.op = "courses_edit", !.user = u, !.course_id = c]

DemoReq == [NoReq EXCEPT !.op = "demo"]

NoLoc ==
    [video |-> 0, member |-> FALSE, n |-> 0, vc |-> {}, vc_switch |-> {},
     found |-> 0, dirty |-> {}, listing |-> {}, videos_courses |-> {}, errors |-> {}, upstream |-> FALSE,
     user |-> 0, course |-> 0, i |-> 0]

\* ------------------------------------------------------------- the store
CourseRows(C, cid) == {c \in C : c.id = cid}

Members(V, cid) == {r \in V : r.course_id = cid}

Seqs(V, cid) == {r.video_seq : r \in Members(V, cid)}

Snapshot == [users |-> users, courses |-> courses, videos |-> videos, vcs |-> vcs]

NoSnapshot == [users |-> {}, courses |-> {}, videos |-> {}, vcs |-> {}]

\* The uniqueness of (course_id, video_seq) in videos_courses.  The table is
\* declared in models.py; the constraint is the one the design document states
\* ("sequence number is constrained unique-per-course") and the placeholder
\* protocol of courses_resequence is written for.  A commit that would break
\* it raises IntegrityError: the request fails and what it had not committed
\* is rolled back.
SeqUnique(V) ==
    \A a \in V : \A b \in V :
        (a.course_id = b.course_id /\ a.video_seq = b.video_seq) => a.id = b.id

\* UPDATE videos_courses SET video_seq = s WHERE id = k
SetSeq(V, k, s) ==
    {IF r.id = k THEN [r EXCEPT !.video_seq = s] ELSE r : r \in V}

\* ---------------------------------------------------------- taking a request
AddPcs == {"a_query", "a_insert_video", "a_members", "a_insert_vc"}

InFlightCourseAdds == Cardinality({w \in Workers : pc[w] \in {"c_query", "c_insert"}})

InFlightAdds == Cardinality({w \in Workers : pc[w] \in AddPcs})

\* add_user_to_g: g.user = User.query.get(session[CURR_USER_KEY]), None when
\* the session names no user or a user that is gone
GUser(r) == IF \E u \in users : u.id = r.user THEN r.user ELSE Anonymous

\* The checks at the head of each handler.  add_video_to_course looks the
\* course up before it looks at g.user; the other two do it the other way round.
Admit(r) ==
    LET found == CourseRows(courses, r.course_id)
        owned == \E c \in found : c.creator_id = r.user
    IN  IF r.op = "demo" THEN "ok"
        ELSE IF r.op = "add"
        THEN IF found = {} THEN "404"
             ELSE IF GUser(r) = Anonymous \/ ~owned THEN "unauthorized" ELSE "ok"
        ELSE IF GUser(r) = Anonymous THEN "unauthorized"
             ELSE IF r.op \in {"courses_add", "courses_search", "search_videos"} THEN "ok"
             ELSE IF found = {} THEN "404"
             ELSE IF ~owned THEN "unauthorized" ELSE "ok"

FirstPc(op) ==
    CASE op = "add"        -> "a_query"
      [] op = "resequence" -> "r_vc"
      [] op = "remove"     -> "d_query"
      [] op = "courses_edit"   -> "e_list"
      [] op = "demo"           -> "m_signup"
      [] op = "courses_add"    -> "c_query"
      [] op = "courses_search" -> "q_all"
      [] op = "search_videos"  -> "s_form"

Serve(w, r, maxVideoId, maxVcId) ==
    /\ pc[w] = "idle"
    /\ r.op = "add" =>
          /\ nextVideoId + InFlightAdds <= maxVideoId
          /\ nextVcId + InFlightAdds <= maxVcId
    /\ req' = [req EXCEPT ![w] = r]
    /\ loc' = [loc EXCEPT ![w] = NoLoc]
    /\ resp' = [resp EXCEPT ![w] = Admit(r)]
    /\ pc' = [pc EXCEPT ![w] = IF Admit(r) = "ok" THEN FirstPc(r.op) ELSE "return"]
    /\ UNCHANGED <<users, nextUserId, courses, nextCourseId, videos, vcs, nextVideoId, nextVcId>>

Goto(w, l) == pc' = [pc EXCEPT ![w] = l]

Reply(w, x) == resp' = [resp EXCEPT ![w] = x]

\* ------------------------------------------------------ add_video_to_course
\* add_video_to_db writing the form's metadata over the row it found
add_video_to_db_update(w) ==
    /\ pc[w] = "a_query"
    /\ LET found == {v \in videos : v.yt_video_id = req[w].yt_video_id}
       IN  IF found = {}
           THEN /\ Goto(w, "a_insert_video")
                /\ UNCHANGED <<loc, videos>>
           ELSE /\ \E v \in found :
                     /\ loc' = [loc EXCEPT ![w].video = v.id]
                     /\ videos' = (videos \ {v}) \cup {[v EXCEPT !.title = req[w].v_title]}
                /\ Goto(w, "a_members")
    /\ UNCHANGED <<users, nextUserId, courses, nextCourseId, vcs, nextVideoId, nextVcId, req, resp, pre>>

\* add_video_to_db: Video.query.filter(Video.yt_video_id == yt_video_id).first()
add_video_to_db(w) ==
    /\ pc[w] = "a_query"
    /\ LET found == {v \in videos : v.yt_video_id = req[w].yt_video_id}
       IN  IF found = {}
           THEN /\ Goto(w, "a_insert_video")
                /\ UNCHANGED loc
           ELSE /\ \E v \in found : loc' = [loc EXCEPT ![w].video = v.id]
                /\ Goto(w, "a_members")
    /\ UNCHANGED <<users, nextUserId, courses, nextCourseId, videos, vcs, nextVideoId, nextVcId, req, resp, pre>>

\* add_video_to_db: db.session.add(video); db.session.commit().  Nothing but
\* the query above stands between two rows with one yt_video_id: the handler
\* catches no constraint violation and none is stated for this column.
add_video_to_db_commit(w) ==
    /\ pc[w] = "a_insert_video"
    /\ videos' = videos \cup {[id |-> nextVideoId, yt_video_id |-> req[w].yt_video_id,
                                 title |-> req[w].v_title]}
    /\ nextVideoId' = nextVideoId + 1
    /\ loc' = [loc EXCEPT ![w].video = nextVideoId]
    /\ Goto(w, "a_members")
    /\ UNCHANGED <<users, nextUserId, courses, nextCourseId, vcs, nextVcId, req, resp, pre>>

\* add_video_members without the test of line 238
add_video_members_unchecked(w) ==
    /\ pc[w] = "a_members"
    /\ loc' = [loc EXCEPT ![w].n = Cardinality(Members(vcs, req[w].course_id))]
    /\ Goto(w, "a_insert_vc")
    /\ UNCHANGED <<users, nextUserId, courses, nextCourseId, videos, vcs, nextVideoId, nextVcId, req, resp, pre>>

\* course = Course.query.get_or_404(course_id); video in course.videos;
\* video_seq = len(course.videos) + 1
add_video_members(w) ==
    /\ pc[w] = "a_members"
    /\ LET mine == Members(vcs, req[w].course_id)
           isin == \E r \in mine : r.video_id = loc[w].video
       IN  /\ loc' = [loc EXCEPT ![w].member = isin, ![w].n = Cardinality(mine)]
           /\ IF isin
              THEN Reply(w, "already") /\ Goto(w, "return")
              ELSE UNCHANGED resp /\ Goto(w, "a_insert_vc")
    /\ UNCHANGED <<users, nextUserId, courses, nextCourseId, videos, vcs, nextVideoId, nextVcId, req, pre>>

NewVideoCourse(w) ==
    [id |-> nextVcId, course_id |-> req[w].course_id, video_id |-> loc[w].video,
     video_seq |-> loc[w].n + 1]

\* db.session.add(video_course); db.session.commit()
add_video_commit(w) ==
    /\ pc[w] = "a_insert_vc"
    /\ LET new == vcs \cup {NewVideoCourse(w)}
           fk  == \E v \in videos : v.id = loc[w].video
       IN  IF fk /\ SeqUnique(new)
           THEN /\ vcs' = new
                /\ nextVcId' = nextVcId + 1
                /\ Reply(w, "added")
           ELSE /\ UNCHANGED <<vcs, nextVcId>>
                /\ Reply(w, "500")
    /\ Goto(w, "return")
    /\ UNCHANGED <<users, nextUserId, courses, nextCourseId, videos, nextVideoId, req, loc, pre>>

\* ------------------------------------------------------- courses_resequence
\* vc = VideoCourse.query.filter(VideoCourse.id == vc_id).all()
resequence_vc(w) ==
    /\ pc[w] = "r_vc"
    /\ loc' = [loc EXCEPT ![w].vc = {r.id : r \in {x \in vcs : x.id = req[w].vc_id}}]
    /\ Goto(w, "r_switch")
    /\ UNCHANGED <<users, nextUserId, courses, nextCourseId, videos, vcs, nextVideoId, nextVcId, req, resp, pre>>

\* resequence_vc_switch looking on the wrong side: video_seq - arrow
resequence_vc_switch_sign(w) ==
    /\ pc[w] = "r_switch"
    /\ LET sw == {r.id : r \in {x \in vcs : /\ x.course_id = req[w].course_id
                                            /\ x.video_seq = req[w].video_seq - req[w].arrow}}
       IN  /\ loc' = [loc EXCEPT ![w].vc_switch = sw]
           /\ IF Cardinality(loc[w].vc) = 1 /\ Cardinality(sw) = 1
              THEN Goto(w, "r_w1")
              ELSE Goto(w, "return")
    /\ UNCHANGED <<users, nextUserId, courses, nextCourseId, videos, vcs, nextVideoId, nextVcId, req, resp, pre>>

\* vc_switch = VideoCourse.query.filter(course_id == course_id,
\*                 video_seq == video_seq + arrow).all(); then the test of line 411
resequence_vc_switch(w) ==
    /\ pc[w] = "r_switch"
    /\ LET sw == {r.id : r \in {x \in vcs : /\ x.course_id = req[w].course_id
                                            /\ x.video_seq = req[w].video_seq + req[w].arrow}}
       IN  /\ loc' = [loc EXCEPT ![w].vc_switch = sw]
           /\ IF Cardinality(loc[w].vc) = 1 /\ Cardinality(sw) = 1
              THEN Goto(w, "r_w1")
              ELSE Goto(w, "return")
    /\ UNCHANGED <<users, nextUserId, courses, nextCourseId, videos, vcs, nextVideoId, nextVcId, req, resp, pre>>

\* one assignment to video_seq followed by db.session.commit(): the UPDATE
\* fails when the row is gone or the new value is taken in its course
CommitSeq(w, ids, s, next) ==
    LET k   == CHOOSE x \in ids : TRUE
        new == SetSeq(vcs, k, s)
    IN  IF (\E r \in vcs : r.id = k) /\ SeqUnique(new)
        THEN vcs' = new /\ UNCHANGED resp /\ Goto(w, next)
        ELSE UNCHANGED vcs /\ Reply(w, "500") /\ Goto(w, "return")

\* vc[0].video_seq = temp_seq_1; db.session.commit()
resequence_temp(w) ==
    /\ pc[w] = "r_w1"
    /\ CommitSeq(w, loc[w].vc, temp_seq_1, "r_w2")
    /\ UNCHANGED <<users, nextUserId, courses, nextCourseId, videos, nextVideoId, nextVcId, req, loc, pre>>

\* vc_switch[0].video_seq = video_seq; db.session.commit()
resequence_switch(w) ==
    /\ pc[w] = "r_w2"
    /\ CommitSeq(w, loc[w].vc_switch, req[w].video_seq, "r_w3")
    /\ UNCHANGED <<users, nextUserId, courses, nextCourseId, videos, nextVideoId, nextVcId, req, loc, pre>>

\* resequence_final assigning video_seq without the arrow
resequence_final_same(w) ==
    /\ pc[w] = "r_w3"
    /\ CommitSeq(w, loc[w].vc, req[w].video_seq, "return")
    /\ UNCHANGED <<users, nextUserId, courses, nextCourseId, videos, nextVideoId, nextVcId, req, loc, pre>>

\* vc[0].video_seq = video_seq + arrow; db.session.commit()
resequence_final(w) ==
    /\ pc[w] = "r_w3"
    /\ CommitSeq(w, loc[w].vc, req[w].video_seq + req[w].arrow, "return")
    /\ UNCHANGED <<users, nextUserId, courses, nextCourseId, videos, nextVideoId, nextVcId, req, loc, pre>>

\* -------------------------------------------------------------- remove_video
\* videos_courses = VideoCourse.query.filter(VideoCourse.video_id == video_id).all()
remove_video_query(w) ==
    /\ pc[w] = "d_query"
    /\ loc' = [loc EXCEPT ![w].found =
                  Cardinality({r \in vcs : r.video_id = req[w].video_id})]
    /\ Goto(w, "d_delete")
    /\ UNCHANGED <<users, nextUserId, courses, nextCourseId, videos, vcs, nextVideoId, nextVcId, req, resp, pre>>

\* DELETE FROM videos WHERE id = v; the foreign key of videos_courses cascades
DeleteVideo(V, v) == {x \in V : x.id # v}

CascadeVideo(M, v) == {r \in M : r.video_id # v}

\* DELETE FROM videos_courses WHERE course_id = c AND video_id = v
DeleteMembership(M, c, v) == {r \in M : ~(r.course_id = c /\ r.video_id = v)}

\* remove_video_delete deleting the video whenever it has a membership
remove_video_delete_any(w) ==
    /\ pc[w] = "d_delete"
    /\ IF loc[w].found >= 1
       THEN /\ videos' = DeleteVideo(videos, req[w].video_id)
            /\ vcs' = CascadeVideo(vcs, req[w].video_id)
       ELSE /\ videos' = videos
            /\ vcs' = DeleteMembership(vcs, req[w].course_id, req[w].video_id)
    /\ Goto(w, "d_reorder")
    /\ UNCHANGED <<users, nextUserId, courses, nextCourseId, nextVideoId, nextVcId, req, loc, resp, pre>>

\* the if/else of lines 454-464, each branch ending in db.session.commit()
remove_video_delete(w) ==
    /\ pc[w] = "d_delete"
    /\ IF loc[w].found = 1
       THEN /\ videos' = DeleteVideo(videos, req[w].video_id)
            /\ vcs' = CascadeVideo(vcs, req[w].video_id)
       ELSE /\ videos' = videos
            /\ vcs' = DeleteMembership(vcs, req[w].course_id, req[w].video_id)
    /\ Goto(w, "d_reorder")
    /\ UNCHANGED <<users, nextUserId, courses, nextCourseId, nextVideoId, nextVcId, req, loc, resp, pre>>

\* the rows the loop of lines 467-473 loads, with the value it assigns to each
Reordered(M, c, s) ==
    {[r EXCEPT !.video_seq = r.video_seq - 1] :
        r \in {x \in M : x.course_id = c /\ x.video_seq > s}}

\* for vc in vc_reorder: vc.video_seq = vc.video_seq - 1.  The assignments stay
\* in the session: the handler returns without db.session.commit()
remove_video_reorder(w) ==
    /\ pc[w] = "d_reorder"
    /\ loc' = [loc EXCEPT ![w].dirty =
                  Reordered(vcs, req[w].course_id, req[w].video_seq)]
    /\ Goto(w, "return")
    /\ UNCHANGED <<users, nextUserId, courses, nextCourseId, videos, vcs, nextVideoId, nextVcId, req, resp, pre>>

\* ------------------------------------------------------------ end of request
\* return redirect(...): the response is sent and the request's session is
\* removed; what it holds uncommitted (the assignments of remove_video's loop)
\* is rolled back, so the tables are left as the last commit left them
\* ------------------------------------------------------------- courses_edit
\* VideoCourse.query.filter(VideoCourse.course_id == course_id)
\*            .order_by(VideoCourse.video_seq).all(): the rows the page shows,
\* in the order of their video_seq
courses_edit_list(w) ==
    /\ pc[w] = "e_list"
    /\ loc' = [loc EXCEPT ![w].videos_courses = Members(vcs, req[w].course_id)]
    /\ Goto(w, "return")
    /\ UNCHANGED <<users, nextUserId, courses, nextCourseId, videos, vcs, nextVideoId, nextVcId, req, resp, pre>>

\* -------------------------------------------------------------- courses_add
\* courses_add looking for the title among the courses of every creator
courses_add_query_any_creator(w) ==
    /\ pc[w] = "c_query"
    /\ IF \E c \in courses : c.title = req[w].title
       THEN Reply(w, "duplicate") /\ Goto(w, "return")
       ELSE UNCHANGED resp /\ Goto(w, "c_insert")
    /\ UNCHANGED <<users, nextUserId, courses, nextCourseId, videos, vcs, nextVideoId, nextVcId, req, loc, pre>>

\* Course.query.filter(Course.title == form.title.data,
\*                     Course.creator_id == g.user.id).first()
courses_add_query(w) ==
    /\ pc[w] = "c_query"
    /\ IF \E c \in courses : c.title = req[w].title /\ c.creator_id = req[w].user
       THEN Reply(w, "duplicate") /\ Goto(w, "return")
       ELSE UNCHANGED resp /\ Goto(w, "c_insert")
    /\ UNCHANGED <<users, nextUserId, courses, nextCourseId, videos, vcs, nextVideoId, nextVcId, req, loc, pre>>

\* db.session.add(course); db.session.commit()
courses_add_commit(w) ==
    /\ pc[w] = "c_insert"
    /\ courses' = courses \cup {[id |-> nextCourseId, creator_id |-> req[w].user,
                                  title |-> req[w].title]}
    /\ nextCourseId' = nextCourseId + 1
    /\ Reply(w, "created")
    /\ Goto(w, "return")
    /\ UNCHANGED <<users, nextUserId, videos, vcs, nextVideoId, nextVcId, req, loc, pre>>

\* ----------------------------------------------------------- courses_search
LowerChar(ch) == IF ch = "A" THEN "a" ELSE IF ch = "B" THEN "b" ELSE ch

\* str.lower / func.lower
Lower(t) == [i \in 1..Len(t) |-> LowerChar(t[i])]

\* column.contains(p): LIKE '%' || p || '%'
Contains(t, p) == \E i \in 0..(Len(t) - Len(p)) : SubSeq(t, i + 1, i + Len(p)) = p

Matching(C, phrase) == {c \in C : Contains(Lower(c.title), Lower(phrase))}

\* courses = Course.query.all()
courses_search_all(w) ==
    /\ pc[w] = "q_all"
    /\ loc' = [loc EXCEPT ![w].listing = {c.id : c \in courses}]
    /\ IF req[w].phrase = <<>>
       THEN Reply(w, "all") /\ Goto(w, "return")
       ELSE UNCHANGED resp /\ Goto(w, "q_filter")
    /\ UNCHANGED <<users, nextUserId, courses, nextCourseId, videos, vcs, nextVideoId, nextVcId, req, pre>>

\* courses_search deleting the memberships of the courses it finds
courses_search_filter_destroys(w) ==
    /\ pc[w] = "q_filter"
    /\ LET hits == {c.id : c \in Matching(courses, req[w].phrase)}
       IN  /\ loc' = [loc EXCEPT ![w].listing = hits]
           /\ Reply(w, IF hits = {} THEN "no_match" ELSE "matches")
           /\ vcs' = {r \in vcs : r.course_id \notin hits}
    /\ Goto(w, "return")
    /\ UNCHANGED <<users, nextUserId, courses, nextCourseId, videos, nextVideoId, nextVcId, req, pre>>

\* Course.query.filter(func.lower(Course.title).contains(phrase_lower)).all()
courses_search_filter(w) ==
    /\ pc[w] = "q_filter"
    /\ LET hits == {c.id : c \in Matching(courses, req[w].phrase)}
       IN  /\ loc' = [loc EXCEPT ![w].listing = hits]
           /\ Reply(w, IF hits = {} THEN "no_match" ELSE "matches")
    /\ Goto(w, "return")
    /\ UNCHANGED <<users, nextUserId, courses, nextCourseId, videos, vcs, nextVideoId, nextVcId, req, pre>>

\* ------------------------------------------------------------ search_videos
\* get_form_data and validate_data.  request.json['keyword'] raises KeyError
\* when the body has no such key; "not data['keyword']" holds for null and "".
search_videos_validate(w) ==
    /\ pc[w] = "s_form"
    /\ IF req[w].keyword = "absent"
       THEN Reply(w, "500") /\ Goto(w, "return") /\ UNCHANGED loc
       ELSE IF req[w].keyword \in {"null", ""}
            THEN /\ loc' = [loc EXCEPT ![w].errors = {"keyword"}]
                 /\ Reply(w, "errors")
                 /\ Goto(w, "return")
            ELSE UNCHANGED <<loc, resp>> /\ Goto(w, "s_upstream")
    /\ UNCHANGED <<users, nextUserId, courses, nextCourseId, videos, vcs, nextVideoId, nextVcId, req, pre>>

\* get_yt_videos: requests.get(...) and search_json["items"], which raises
\* KeyError when the provider answers with an error object
search_videos_upstream(w) ==
    /\ pc[w] = "s_upstream"
    /\ loc' = [loc EXCEPT ![w].upstream = TRUE]
    /\ \E items \in BOOLEAN : Reply(w, IF items THEN "videos" ELSE "500")
    /\ Goto(w, "return")
    /\ UNCHANGED <<users, nextUserId, courses, nextCourseId, videos, vcs, nextVideoId, nextVcId, req, pre>>

\* ----------------------------------------------------------- make_demo_acct
\* the provider ids of the three videos of populate_demo_data, in its order
DemoVideos == <<1, 2, 3>>

DemoTitle == <<"P">>

DemoUsers(U) == {u \in U : u.username = "Demo"}

CoursesOf(C, U) == {c \in C : \E u \in U : c.creator_id = u.id}

\* User.query.filter_by(username="Demo", email="demo@demo.com").delete();
\* signup_demo_user(): db.session.add(user); db.session.commit().
\* The bulk DELETE leaves the courses of the deleted user to the foreign key
\* courses.creator_id, declared in models.py: it deletes them and their
\* memberships, or sets their creator to NULL, or refuses the DELETE, and the
\* request then fails before anything is committed.
make_demo_acct_signup(w) ==
    /\ pc[w] = "m_signup"
    /\ LET old   == DemoUsers(users)
           owned == CoursesOf(courses, old)
           new   == [id |-> nextUserId, username |-> "Demo"]
       IN  \E fk \in IF owned = {} THEN {"cascade"} ELSE {"cascade", "set null", "restrict"} :
               IF fk = "restrict"
               THEN /\ Reply(w, "500") /\ Goto(w, "return")
                    /\ UNCHANGED <<users, nextUserId, courses, vcs, loc>>
               ELSE /\ users' = (users \ old) \cup {new}
                    /\ nextUserId' = nextUserId + 1
                    /\ courses' = IF fk = "cascade" THEN courses \ owned
                                  ELSE {IF c \in owned THEN [c EXCEPT !.creator_id = Anonymous]
                                        ELSE c : c \in courses}
                    /\ vcs' = IF fk = "cascade"
                              THEN {r \in vcs : \A c \in owned : r.course_id # c.id}
                              ELSE vcs
                    /\ loc' = [loc EXCEPT ![w].user = nextUserId]
                    /\ UNCHANGED resp /\ Goto(w, "m_course")
    /\ UNCHANGED <<nextCourseId, videos, nextVideoId, nextVcId, req, pre>>

\* populate_demo_data: course = Course(...); db.session.add(course); commit
populate_demo_course(w) ==
    /\ pc[w] = "m_course"
    /\ courses' = courses \cup {[id |-> nextCourseId, creator_id |-> loc[w].user,
                                  title |-> DemoTitle]}
    /\ nextCourseId' = nextCourseId + 1
    /\ loc' = [loc EXCEPT ![w].course = nextCourseId, ![w].i = 1]
    /\ Goto(w, "m_video")
    /\ UNCHANGED <<users, nextUserId, videos, vcs, nextVideoId, nextVcId, req, resp, pre>>

\* add_video_to_db(video_i, ...): the query of line 603
populate_demo_video(w) ==
    /\ pc[w] = "m_video"
    /\ IF \E v \in videos : v.yt_video_id = DemoVideos[loc[w].i]
       THEN Goto(w, "m_members")
       ELSE Goto(w, "m_video_insert")
    /\ UNCHANGED <<users, nextUserId, courses, nextCourseId, videos, vcs, nextVideoId, nextVcId, req, loc, resp, pre>>

\* add_video_to_db(video_i, ...): db.session.add(video); db.session.commit()
populate_demo_video_commit(w) ==
    /\ pc[w] = "m_video_insert"
    /\ videos' = videos \cup {[id |-> nextVideoId, yt_video_id |-> DemoVideos[loc[w].i],
                                title |-> "demo"]}
    /\ nextVideoId' = nextVideoId + 1
    /\ Goto(w, "m_members")
    /\ UNCHANGED <<users, nextUserId, courses, nextCourseId, vcs, nextVcId, req, loc, resp, pre>>

\* populate_demo_members taking whichever video the table holds
populate_demo_members_any(w) ==
    /\ pc[w] = "m_members"
    /\ \E v \in videos :
          loc' = [loc EXCEPT ![w].video = v.id,
                             ![w].n = Cardinality(Members(vcs, loc[w].course))]
    /\ Goto(w, "m_vc")
    /\ UNCHANGED <<users, nextUserId, courses, nextCourseId, videos, vcs, nextVideoId, nextVcId, req, resp, pre>>

\* video_i_db = Video.query.filter(Video.yt_video_id == ...).first();
\* video_i_seq = len(course.videos) + 1
populate_demo_members(w) ==
    /\ pc[w] = "m_members"
    /\ \E v \in {x \in videos : x.yt_video_id = DemoVideos[loc[w].i]} :
          loc' = [loc EXCEPT ![w].video = v.id,
                             ![w].n = Cardinality(Members(vcs, loc[w].course))]
    /\ Goto(w, "m_vc")
    /\ UNCHANGED <<users, nextUserId, courses, nextCourseId, videos, vcs, nextVideoId, nextVcId, req, resp, pre>>

\* db.session.add(video_course_i); db.session.commit()
populate_demo_commit(w) ==
    /\ pc[w] = "m_vc"
    /\ LET row == [id |-> nextVcId, course_id |-> loc[w].course, video_id |-> loc[w].video,
                   video_seq |-> loc[w].n + 1]
           new == vcs \cup {row}
       IN  IF SeqUnique(new)
           THEN /\ vcs' = new
                /\ nextVcId' = nextVcId + 1
                /\ IF loc[w].i < Len(DemoVideos)
                   THEN /\ loc' = [loc EXCEPT ![w].i = loc[w].i + 1]
                        /\ UNCHANGED resp /\ Goto(w, "m_video")
                   ELSE UNCHANGED <<loc, resp>> /\ Goto(w, "return")
           ELSE /\ UNCHANGED <<vcs, nextVcId, loc>>
                /\ Reply(w, "500") /\ Goto(w, "return")
    /\ UNCHANGED <<users, nextUserId, courses, nextCourseId, videos, nextVideoId, req, pre>>

Return(w) ==
    /\ pc[w] = "return"
    /\ loc' = [loc EXCEPT ![w] = NoLoc]
    /\ req' = [req EXCEPT ![w] = NoReq]
    /\ resp' = [resp EXCEPT ![w] = "none"]
    /\ pre' = NoSnapshot
    /\ Goto(w, "idle")
    /\ UNCHANGED <<users, nextUserId, courses, nextCourseId, videos, vcs, nextVideoId, nextVcId>>

Step(w) ==
    \/ add_video_to_db(w)
    \/ add_video_to_db_commit(w)
    \/ add_video_members(w)
    \/ add_video_commit(w)
    \/ resequence_vc(w)
    \/ resequence_vc_switch(w)
    \/ resequence_temp(w)
    \/ resequence_switch(w)
    \/ resequence_final(w)
    \/ remove_video_query(w)
    \/ remove_video_delete(w)
    \/ remove_video_reorder(w)
    \/ Return(w)

\* ------------------------------------------------------------ the requests
\* the requests of add_video_to_course alone
StepAdd(w) ==
    \/ add_video_to_db(w)
    \/ add_video_to_db_commit(w)
    \/ add_video_members(w)
    \/ add_video_commit(w)
    \/ Return(w)

\* moving the videos of a course and showing its edit page
StepSwap(w) ==
    \/ resequence_vc(w)
    \/ resequence_vc_switch(w)
    \/ resequence_temp(w)
    \/ resequence_switch(w)
    \/ resequence_final(w)
    \/ courses_edit_list(w)
    \/ Return(w)

\* the demo account and the pages of its course
StepDemo(w) ==
    \/ make_demo_acct_signup(w)
    \/ populate_demo_course(w)
    \/ populate_demo_video(w)
    \/ populate_demo_video_commit(w)
    \/ populate_demo_members(w)
    \/ populate_demo_commit(w)
    \/ StepAdd(w)
    \/ remove_video_query(w)
    \/ remove_video_delete(w)
    \/ remove_video_reorder(w)

\* removing videos
StepRemove(w) ==
    \/ remove_video_query(w)
    \/ remove_video_delete(w)
    \/ remove_video_reorder(w)
    \/ Return(w)

\* creating courses
StepCourses(w) ==
    \/ courses_add_query(w)
    \/ courses_add_commit(w)
    \/ Return(w)

\* creating and searching courses, searching videos, adding and removing videos
StepBrowse(w) ==
    \/ remove_video_query(w)
    \/ remove_video_delete(w)
    \/ remove_video_reorder(w)
    \/ courses_add_query(w)
    \/ courses_add_commit(w)
    \/ courses_search_all(w)
    \/ courses_search_filter(w)
    \/ search_videos_validate(w)
    \/ search_videos_upstream(w)
    \/ StepAdd(w)

Arrows == {-1, 1}

\* course titles and search phrases: strings over a small alphabet
Titles == {<<"a">>, <<"A", "b">>, <<"b">>}

Phrases == {<<>>, <<"A">>, <<"a", "B">>, <<"c">>}

\* the keyword of the JSON body: no such key, null, the empty string, a word
Keywords == {"absent", "null", "", "k"}

\* values of the hidden metadata fields of the add form
Metadata == {"m1", "m2"}

\* Any request: any actor, any course id in the URL, any form values.  The
\* video-id field of the resequence form is read and never used (line 398).
Requests ==
    {AddReq(u, c, y, "m1") : u \in Actors, c \in CourseIds, y \in 1..AnyYt}
    \cup {ReseqReq(u, c, 0, k, s, a) : u \in Actors, c \in CourseIds,
                                       k \in 1..AnyVcId, s \in 0..MaxSeq, a \in Arrows}
    \cup {RemoveReq(u, c, v, s) : u \in Actors, c \in CourseIds,
                                  v \in 1..AnyVideoId, s \in 0..MaxSeq}

Creator(cid) == (CHOOSE c \in courses : c.id = cid).creator_id

\* The requests the pages of the application submit: the search page of a
\* course (shown to its creator) posts an add; each row of the edit page (shown
\* to the creator, one row per membership) posts that row's ids and sequence.
\* The add form carries the video's metadata as hidden fields (v-title and the
\* rest); titles are the values of that metadata.
AddRequests(numYt, titles) ==
    {AddReq(c.creator_id, c.id, y, t) : c \in courses, y \in 1..numYt, t \in titles}

ReseqRequests ==
    {ReseqReq(Creator(m.course_id), m.course_id, m.video_id, m.id, m.video_seq, a) :
        m \in vcs, a \in Arrows}

RemoveRequests ==
    {RemoveReq(Creator(m.course_id), m.course_id, m.video_id, m.video_seq) : m \in vcs}

\* the creator opening the edit page of a course that has videos
EditRequests == {EditReq(Creator(m.course_id), m.course_id) : m \in vcs}

PageRequests(numYt, titles) ==
    AddRequests(numYt, titles)
    \cup ReseqRequests
    \cup RemoveRequests

\* The forms of the course pages and of the video search, from any session,
\* the add forms of the search page of a course and the remove forms of its
\* edit page.
BrowseRequests ==
    {CoursesAddReq(u, t) : u \in Actors, t \in Titles}
    \cup {CoursesSearchReq(u, p) : u \in Actors, p \in Phrases}
    \cup {SearchVideosReq(u, k) : u \in Actors, k \in Keywords}
    \cup AddRequests(BrowseYt, {"m1"})
    \cup RemoveRequests

\* Two users have signed up and each has created a course.
Init ==
    /\ users = {[id |-> u, username |-> "user"] : u \in Users}
    /\ nextUserId = 3
    /\ courses = {[id |-> 1, creator_id |-> 1, title |-> <<"a">>],
                  [id |-> 2, creator_id |-> 2, title |-> <<"A", "b">>]}
    /\ nextCourseId = 3
    /\ videos = {}
    /\ vcs = {}
    /\ nextVideoId = 1
    /\ nextVcId = 1
    /\ pc = [w \in Workers |-> "idle"]
    /\ req = [w \in Workers |-> NoReq]
    /\ loc = [w \in Workers |-> NoLoc]
    /\ resp = [w \in Workers |-> "none"]
    /\ pre = NoSnapshot

\* The store once user 1 has added SwapLen videos to course 1.
InitSwap ==
    /\ users = {[id |-> u, username |-> "user"] : u \in Users}
    /\ nextUserId = 3
    /\ courses = {[id |-> 1, creator_id |-> 1, title |-> <<"a">>],
                  [id |-> 2, creator_id |-> 2, title |-> <<"A", "b">>]}
    /\ nextCourseId = 3
    /\ videos = {[id |-> i, yt_video_id |-> i, title |-> "m1"] : i \in 1..SwapLen}
    /\ vcs = {[id |-> i, course_id |-> 1, video_id |-> i, video_seq |-> i] : i \in 1..SwapLen}
    /\ nextVideoId = SwapLen + 1
    /\ nextVcId = SwapLen + 1
    /\ pc = [w \in Workers |-> "idle"]
    /\ req = [w \in Workers |-> NoReq]
    /\ loc = [w \in Workers |-> NoLoc]
    /\ resp = [w \in Workers |-> "none"]
    /\ pre = NoSnapshot

\* The store once users 1 and 2 have each added one video to their course.
InitShared ==
    /\ users = {[id |-> u, username |-> "user"] : u \in Users}
    /\ nextUserId = 3
    /\ courses = {[id |-> 1, creator_id |-> 1, title |-> <<"a">>],
                  [id |-> 2, creator_id |-> 2, title |-> <<"A", "b">>]}
    /\ nextCourseId = 3
    /\ videos = {[id |-> 1, yt_video_id |-> 1, title |-> "m1"]}
    /\ vcs = {[id |-> c.id, course_id |-> c.id, video_id |-> 1, video_seq |-> 1] : c \in courses}
    /\ nextVideoId = 2
    /\ nextVcId = 3
    /\ pc = [w \in Workers |-> "idle"]
    /\ req = [w \in Workers |-> NoReq]
    /\ loc = [w \in Workers |-> NoLoc]
    /\ resp = [w \in Workers |-> "none"]
    /\ pre = NoSnapshot

\* one worker, any request
Request(w) ==
    \E r \in Requests : Serve(w, r, AnyVideoId, AnyVcId) /\ pre' = Snapshot

\* one worker, the requests of the pages
PageRequest(w) ==
    \E r \in PageRequests(NumYt, {"m1"}) : Serve(w, r, MaxVideoId, MaxVcId) /\ pre' = Snapshot

\* several workers, the requests of the pages
ConcRequest(w) ==
    \E r \in PageRequests(ConcYt, {"m1"}) : Serve(w, r, ConcVideoId, ConcVcId) /\ UNCHANGED pre

\* one worker, add forms whose metadata differs from form to form
MetaRequest(w) ==
    \E r \in AddRequests(MetaYt, Metadata) : Serve(w, r, MetaVideoId, MetaVcId) /\ pre' = Snapshot

\* one worker creating and searching courses, searching, adding and removing
\* videos
\* (a courses_add form that would take a course id beyond MaxCourseId is not
\* taken)
BrowseRequest(w) ==
    \E r \in BrowseRequests :
        /\ r.op = "courses_add" =>
              \/ nextCourseId <= MaxCourseId
              \/ \E c \in courses : c.creator_id = r.user /\ c.title = r.title
        /\ Serve(w, r, BrowseVideoId, BrowseVcId)
        /\ pre' = Snapshot

\* several workers on the edit page of a course
SwapRequest(w) ==
    \E r \in ReseqRequests \cup EditRequests : Serve(w, r, SwapLen, SwapLen) /\ UNCHANGED pre

\* one worker: anyone asks for the demo account; creators add one of its videos
\* to their courses and remove videos from them
DemoRequest(w) ==
    \/ /\ nextUserId <= MaxUserId
       /\ nextVideoId + Len(DemoVideos) - 1 <= DemoVideoId
       /\ nextVcId + Len(DemoVideos) - 1 <= DemoVcId
       /\ Serve(w, DemoReq, DemoVideoId, DemoVcId)
       /\ pre' = Snapshot
    \/ \E r \in AddRequests(DemoYt, {"m1"}) \cup RemoveRequests :
           Serve(w, r, DemoVideoId, DemoVcId) /\ pre' = Snapshot

\* several workers, the add forms of the search pages
ConcAddRequest(w) ==
    \E r \in AddRequests(ConcYt, {"m1"}) : Serve(w, r, ConcVideoId, ConcVcId) /\ UNCHANGED pre

\* several workers, the form of the new-course page from any session (a form
\* is not taken when the requests being served may use up the course ids)
ConcCoursesRequest(w) ==
    \E r \in {CoursesAddReq(u, t) : u \in Actors, t \in Titles} :
        /\ nextCourseId + InFlightCourseAdds <= ConcCourseId
        /\ Serve(w, r, ConcVideoId, ConcVcId)
        /\ UNCHANGED pre

\* several workers, the remove forms of the edit pages
ConcRemoveRequest(w) ==
    \E r \in RemoveRequests : Serve(w, r, ConcVideoId, ConcVcId) /\ UNCHANGED pre

Next == Request(1) \/ Step(1)

Spec == Init /\ [][Next]_vars

NextOwner == PageRequest(1) \/ Step(1)

SpecOwner == Init /\ [][NextOwner]_vars

NextMeta == MetaRequest(1) \/ StepAdd(1)

SpecMeta == Init /\ [][NextMeta]_vars

NextBrowse == BrowseRequest(1) \/ StepBrowse(1)

SpecBrowse == Init /\ [][NextBrowse]_vars

NextSwap == \E w \in Workers : SwapRequest(w) \/ StepSwap(w)

SpecSwap == InitSwap /\ [][NextSwap]_vars

NextDemo == DemoRequest(1) \/ StepDemo(1)

SpecDemo == Init /\ [][NextDemo]_vars

NextAdd == \E w \in Workers : ConcAddRequest(w) \/ StepAdd(w)

SpecAdd == Init /\ [][NextAdd]_vars

NextCourses == \E w \in Workers : ConcCoursesRequest(w) \/ StepCourses(w)

SpecCourses == Init /\ [][NextCourses]_vars

NextRemove == \E w \in Workers : ConcRemoveRequest(w) \/ StepRemove(w)

SpecRemove == InitShared /\ [][NextRemove]_vars

NextConc == \E w \in Workers : ConcRequest(w) \/ Step(w)

SpecConc == Init /\ [][NextConc]_vars

\* ------------------------------------------------------------------ claims
\* The sequence numbers of course cid are exactly 1..N, N its number of rows.
Contiguous(V, cid) == Seqs(V, cid) = 1..Cardinality(Members(V, cid))

\* The row of the snapshot that request r names: a membership of the course
\* of the URL with the form's video id and sequence number.
Named(r) ==
    {m \in Members(pre.vcs, r.course_id) :
        m.video_id = r.video_id /\ m.video_seq = r.video_seq}

\* C1: between requests, every course's sequence numbers are exactly 1..N
\* with no duplicate and no gap, N being its number of memberships.
C1_SequenceContiguous ==
    pc[1] = "idle" => \A c \in courses : Contiguous(vcs, c.id)

\* What C2 expects of the course after the removal of video v at sequence s.
Renumbered(V, cid, v, s) ==
    {[r EXCEPT !.video_seq = IF r.video_seq > s THEN r.video_seq - 1 ELSE r.video_seq] :
        r \in {m \in Members(V, cid) : m.video_id # v}}

\* C2: when remove_video has removed the membership at sequence s of a course
\* numbered 1..N, the rows the next request reads have every later member
\* moved down by one and every earlier member unchanged.
C2_RemoveRenumbers ==
    [][(/\ pc[1] = "return" /\ pc'[1] = "idle"
        /\ req[1].op = "remove" /\ resp[1] = "ok"
        /\ Named(req[1]) # {}
        /\ Contiguous(pre.vcs, req[1].course_id))
       => Members(vcs', req[1].course_id)
            = Renumbered(pre.vcs, req[1].course_id, req[1].video_id, req[1].video_seq)]_vars

C2_Witness ==
    /\ pc[1] = "return" /\ req[1].op = "remove" /\ resp[1] = "ok"
    /\ Named(req[1]) # {}
    /\ Contiguous(pre.vcs, req[1].course_id)
    /\ \E m \in Members(pre.vcs, req[1].course_id) : m.video_seq > req[1].video_seq

\* The pairs (m, t) of C3: m is the row the form names, at the sequence the
\* form carries, and t the other row of its course at that sequence + arrow.
SwapPairs(r) ==
    {p \in pre.vcs \X pre.vcs :
        /\ p[1].id = r.vc_id
        /\ p[1].course_id = r.course_id
        /\ p[1].video_seq = r.video_seq
        /\ p[2].course_id = r.course_id
        /\ p[2].video_seq = r.video_seq + r.arrow
        /\ p[2].id # p[1].id}

\* C3: when courses_resequence returns, having been asked to move m from s by
\* d while t sits at s + d, m is at s + d, t is at s, and every other row of
\* videos_courses (so the set of memberships too) and every video is as before.
C3_SwapExchanges ==
    (pc[1] = "return" /\ req[1].op = "resequence") =>
        \A p \in SwapPairs(req[1]) :
            /\ vcs = SetSeq(SetSeq(pre.vcs, p[1].id, p[2].video_seq), p[2].id, p[1].video_seq)
            /\ videos = pre.videos

C3_Witness ==
    /\ pc[1] = "return" /\ req[1].op = "resequence"
    /\ SwapPairs(req[1]) # {}
    /\ Cardinality(Members(pre.vcs, req[1].course_id)) = 3
    /\ vcs # pre.vcs

\* The request moves the first row up or the last row down.
AtBoundary(r) ==
    \E m \in Members(pre.vcs, r.course_id) :
        /\ m.id = r.vc_id
        /\ m.video_seq = r.video_seq
        /\ \/ r.video_seq = 1 /\ r.arrow = -1
           \/ /\ r.arrow = 1
              /\ \A x \in Members(pre.vcs, r.course_id) : x.video_seq <= r.video_seq

\* C4: at every step of a courses_resequence that moves the row at sequence 1
\* up, or the last row down, the tables are as they were when it began: nothing
\* is written, the placeholder included.
C4_BoundaryNoOp ==
    (req[1].op = "resequence" /\ AtBoundary(req[1])) =>
        (vcs = pre.vcs /\ videos = pre.videos)

C4_Witness ==
    /\ pc[1] = "return" /\ req[1].op = "resequence" /\ AtBoundary(req[1])
    /\ Cardinality(Members(pre.vcs, req[1].course_id)) >= 2

\* The video the add request names was a member of its course when it began.
WasMember(r) ==
    \E v \in pre.videos : \E m \in Members(pre.vcs, r.course_id) :
        v.yt_video_id = r.yt_video_id /\ m.video_id = v.id

\* C5: an add of a video that is already a member of the course answers
\* "already added" and leaves both tables as they were; and no (course, video)
\* pair ever has two rows.
C5_AlreadyMember ==
    /\ (pc[1] = "return" /\ req[1].op = "add" /\ WasMember(req[1])) =>
          (resp[1] = "already" /\ vcs = pre.vcs /\ videos = pre.videos)
    /\ \A a \in vcs : \A b \in vcs :
          (a.course_id = b.course_id /\ a.video_id = b.video_id) => a.id = b.id

C5_Witness ==
    pc[1] = "return" /\ req[1].op = "add" /\ WasMember(req[1])

\* C6: an add of a video that is not a member of the course leaves exactly
\* one new row, for that course and video, at sequence (rows of the course
\* before) + 1, and every other row as it was.
C6_AddAppends ==
    (pc[1] = "return" /\ req[1].op = "add" /\ resp[1] \notin {"404", "unauthorized"}
        /\ ~WasMember(req[1])) =>
        \E x \in vcs :
            /\ x \notin pre.vcs
            /\ vcs = pre.vcs \cup {x}
            /\ x.course_id = req[1].course_id
            /\ x.video_seq = Cardinality(Members(pre.vcs, req[1].course_id)) + 1
            /\ \E v \in videos : v.id = x.video_id /\ v.yt_video_id = req[1].yt_video_id

Pairs(V) == {<<r.course_id, r.video_id>> : r \in V}

\* The video of the remove request had a membership in another course.
Shared(r) ==
    \E m \in pre.vcs : m.video_id = r.video_id /\ m.course_id # r.course_id

\* C7: when remove_video returns, having been asked to remove a video from a
\* course it was a member of, that membership is gone and no other; the rows
\* of the other courses are as before if the video is shared; and the videos
\* table has lost the video's row exactly when it was not shared.
C7_RemoveOrphanOrShared ==
    (pc[1] = "return" /\ req[1].op = "remove" /\ resp[1] = "ok"
        /\ <<req[1].course_id, req[1].video_id>> \in Pairs(pre.vcs)) =>
        /\ Pairs(vcs) = Pairs(pre.vcs) \ {<<req[1].course_id, req[1].video_id>>}
        /\ IF Shared(req[1])
           THEN /\ videos = pre.videos
                /\ \A c \in courses : c.id # req[1].course_id =>
                      Members(vcs, c.id) = Members(pre.vcs, c.id)
           ELSE videos = {v \in pre.videos : v.id # req[1].video_id}

C7_Witness ==
    /\ pc[1] = "return" /\ req[1].op = "remove" /\ resp[1] = "ok"
    /\ <<req[1].course_id, req[1].video_id>> \in Pairs(pre.vcs)
    /\ Shared(req[1])

C7_WitnessOrphan ==
    /\ pc[1] = "return" /\ req[1].op = "remove" /\ resp[1] = "ok"
    /\ <<req[1].course_id, req[1].video_id>> \in Pairs(pre.vcs)
    /\ ~Shared(req[1])
    /\ Cardinality(Members(pre.vcs, req[1].course_id)) >= 2

\* C8: every membership references a stored video, and a step deletes a video
\* only if it is the delete of a remove_video for that video and every
\* membership then referencing the video is in the course of that request.
C8_NoDanglingNoEarlyDelete ==
    [][/\ \A r \in vcs' : \E v \in videos' : v.id = r.video_id
       /\ \A v \in videos : v \notin videos' =>
             \E w \in Workers :
                 /\ pc[w] = "d_delete" /\ pc'[w] = "d_reorder"
                 /\ req[w].video_id = v.id
                 /\ \A r \in vcs : r.video_id = v.id => r.course_id = req[w].course_id]_vars

\* The request of worker 1 comes from the creator of the course in its URL.
ByOwner(r) == \E c \in courses : c.id = r.course_id /\ c.creator_id = r.user

\* C9: no step of a request changes the rows of a course whose creator is not
\* the acting user, and no step of a request by anyone but the creator of the
\* course in the URL changes any table.
C9_OwnerOnly ==
    [][/\ \A c \in courses : c.creator_id # req[1].user =>
             Members(vcs', c.id) = Members(vcs, c.id)
       /\ ~ByOwner(req[1]) => UNCHANGED <<users, nextUserId, courses, nextCourseId, videos, vcs>>]_vars

\* C10: the videos table holds at most one row per provider id.
C10_OneRowPerProviderId ==
    \A a \in videos : \A b \in videos : a.yt_video_id = b.yt_video_id => a.id = b.id

\* The rows of the snapshot that carry the provider id of the add form.
Stored(r) == {v \in pre.videos : v.yt_video_id = r.yt_video_id}

\* C11: add_video_to_db called with a provider id that is already stored
\* returns the stored row, creates no row and leaves the stored metadata as it
\* was, whatever metadata the form carries.
C11_AddVideoToDbIdempotent ==
    (pc[1] \in {"a_members", "a_insert_vc"} /\ Stored(req[1]) # {}) =>
        /\ videos = pre.videos
        /\ \E v \in Stored(req[1]) : loc[1].video = v.id

\* add_video_to_db has returned the stored row to a form of other metadata
C11_Witness ==
    /\ pc[1] = "a_members"
    /\ \E v \in Stored(req[1]) : v.title # req[1].v_title /\ v \in videos

\* The courses of the snapshot that the creator and title of request r name.
SameTitle(r) == {c \in pre.courses : c.creator_id = r.user /\ c.title = r.title}

\* C12: courses_add, one request at a time: with a title its creator already
\* has, no course is created and the duplicate is reported; otherwise, also
\* when another creator has that title, one course is created; no two courses
\* share creator and title.
C12_TitleUniquePerCreator ==
    /\ \A a \in courses : \A b \in courses :
          (a.creator_id = b.creator_id /\ a.title = b.title) => a.id = b.id
    /\ (pc[1] = "return" /\ req[1].op = "courses_add" /\ resp[1] # "unauthorized") =>
          IF SameTitle(req[1]) # {}
          THEN courses = pre.courses /\ resp[1] = "duplicate"
          ELSE /\ resp[1] = "created"
               /\ \E c \in courses \ pre.courses :
                     /\ courses = pre.courses \cup {c}
                     /\ c.creator_id = req[1].user /\ c.title = req[1].title
                     /\ \A o \in pre.courses : o.id # c.id

\* a duplicate is reported to one creator while another creator has the title
C12_Witness ==
    /\ pc[1] = "return" /\ req[1].op = "courses_add" /\ resp[1] = "duplicate"
    /\ \E c \in courses : c.title = req[1].title /\ c.creator_id # req[1].user

\* C13: while courses_resequence runs, no concurrent read of the course
\* (courses_edit, courses_details) sees an intermediate ordering: the rows a
\* read returns carry exactly the sequence numbers 1..N, never the placeholder.
C13_ReadersSeeNoIntermediate ==
    \A w \in Workers :
        (pc[w] = "return" /\ req[w].op = "courses_edit" /\ resp[w] = "ok") =>
            {r.video_seq : r \in loc[w].videos_courses}
                = 1..Cardinality(loc[w].videos_courses)

\* C19: once two concurrent courses_resequence requests on a course have both
\* completed, the course's sequence numbers are exactly 1..N.
C19_ConcurrentSwapsContiguous ==
    (\A w \in Workers : pc[w] = "idle") => \A c \in courses : Contiguous(vcs, c.id)

\* C14: after make_demo_acct has completed, whether or not a Demo account,
\* its course and the three videos were there before, the Demo user owns one
\* course, and that course has three memberships with the sequence numbers
\* 1, 2, 3 in the order of their creation, on three Video rows that carry the
\* three fixed provider ids.
C14_DemoFixture ==
    (pc[1] = "return" /\ req[1].op = "demo" /\ resp[1] = "ok") =>
        /\ Cardinality(DemoUsers(users)) = 1
        /\ \E c \in courses :
              /\ CoursesOf(courses, DemoUsers(users)) = {c}
              /\ Cardinality(Members(vcs, c.id)) = Len(DemoVideos)
              /\ \A i \in 1..Len(DemoVideos) :
                    \E r \in Members(vcs, c.id) :
                        /\ r.video_seq = i
                        /\ \E v \in videos : v.id = r.video_id /\ v.yt_video_id = DemoVideos[i]
              /\ \A a \in Members(vcs, c.id) : \A b \in Members(vcs, c.id) :
                    a.id < b.id <=> a.video_seq < b.video_seq

\* make_demo_acct has completed where a Demo account with a course of videos
\* was there before
C14_Witness ==
    /\ pc[1] = "return" /\ req[1].op = "demo" /\ resp[1] = "ok"
    /\ \E c \in CoursesOf(pre.courses, DemoUsers(pre.users)) : Members(pre.vcs, c.id) # {}
    /\ \E v \in pre.videos : v.yt_video_id = DemoVideos[1]

\* C15: remove_video naming a video that has no membership in the course of
\* the URL is rejected as not found and changes nothing.
C15_RemoveNonMemberRejected ==
    (/\ pc[1] = "return" /\ req[1].op = "remove" /\ resp[1] # "unauthorized"
     /\ <<req[1].course_id, req[1].video_id>> \notin Pairs(pre.vcs)) =>
        /\ resp[1] = "404"
        /\ vcs = pre.vcs
        /\ videos = pre.videos

\* The tables after the membership with the id of form r, as stored, has
\* changed places with the membership of its own course that is stored at its
\* sequence number + arrow; the tables as they were when there is none.
StoredSwap(r) ==
    LET vc == {x \in pre.vcs : x.id = r.vc_id}
        sw == {y \in pre.vcs : \E x \in vc : /\ y.course_id = x.course_id
                                             /\ y.video_seq = x.video_seq + r.arrow}
    IN  IF vc = {} \/ sw = {}
        THEN pre.vcs
        ELSE LET x == CHOOSE x \in vc : TRUE
                 y == CHOOSE y \in sw : TRUE
             IN  SetSeq(SetSeq(pre.vcs, x.id, y.video_seq), y.id, x.video_seq)

\* C18: courses_resequence takes the partner from what is stored for the
\* moved membership (its stored sequence number + direction, in its own
\* course), whatever sequence number and course the form carries, and leaves
\* neither a duplicate nor a gap.
C18_PartnerFromStoredState ==
    (pc[1] = "return" /\ req[1].op = "resequence" /\ resp[1] \notin {"unauthorized", "404"}) =>
        /\ vcs = StoredSwap(req[1])
        /\ \A c \in courses : Contiguous(pre.vcs, c.id) => Contiguous(vcs, c.id)

\* C16: a membership is destroyed when its video is removed from its course
\* or when the course is searched (courses_search): once a search has listed
\* a course, the course has no memberships.
C16_DestroyedOnRemovalOrSearch ==
    /\ (pc[1] = "return" /\ req[1].op = "remove" /\ resp[1] = "ok") =>
          <<req[1].course_id, req[1].video_id>> \notin Pairs(vcs)
    /\ (pc[1] = "return" /\ req[1].op = "courses_search" /\ resp[1] # "unauthorized") =>
          \A cid \in loc[1].listing : Members(vcs, cid) = {}

\* C16, amended: a membership is destroyed when its video is removed from its
\* course; courses_search destroys none, it leaves every table as it was.
C16_DestroyedOnRemovalNotSearch ==
    /\ (pc[1] = "return" /\ req[1].op = "remove" /\ resp[1] = "ok") =>
          <<req[1].course_id, req[1].video_id>> \notin Pairs(vcs)
    /\ req[1].op = "courses_search" =>
          /\ vcs = pre.vcs
          /\ videos = pre.videos
          /\ courses = pre.courses

\* a search by phrase has listed a course that has memberships
C16_Witness ==
    /\ pc[1] = "return" /\ req[1].op = "courses_search" /\ resp[1] = "matches"
    /\ \E cid \in loc[1].listing : Members(vcs, cid) # {}

\* C17: search_videos validates the keyword before it calls the provider: for
\* a missing or empty keyword a logged-in user gets the errors payload with a
\* message for the field keyword and the provider is not called; the provider
\* is called only for a logged-in user with a non-empty keyword.
C17_ValidationBeforeUpstream ==
    /\ (/\ pc[1] = "return" /\ req[1].op = "search_videos" /\ resp[1] # "unauthorized"
        /\ req[1].keyword \in {"absent", "null", ""}) =>
          /\ resp[1] = "errors"
          /\ "keyword" \in loc[1].errors
          /\ ~loc[1].upstream
    /\ loc[1].upstream =>
          /\ req[1].op = "search_videos"
          /\ GUser(req[1]) # Anonymous
          /\ req[1].keyword \notin {"absent", "null", ""}

\* the provider id of the video of membership r
YtOf(r) == {v.yt_video_id : v \in {x \in videos : x.id = r.video_id}}

\* C20: once concurrent add_video_to_course requests on a course have
\* completed, its memberships have pairwise distinct sequence numbers that form
\* 1..N, and a video that both requests carried has one membership in it.
C20_ConcurrentAddsDistinct ==
    (\A w \in Workers : pc[w] = "idle") =>
        \A c \in courses :
            /\ Contiguous(vcs, c.id)
            /\ Cardinality(Seqs(vcs, c.id)) = Cardinality(Members(vcs, c.id))
            /\ \A a \in Members(vcs, c.id) : \A b \in Members(vcs, c.id) :
                  YtOf(a) = YtOf(b) => a.id = b.id

\* C21: two courses_add requests of one creator with one title, served at
\* once, create at most one course under every interleaving of their queries
\* and inserts: no state has two courses with the same creator and title.
C21_ConcurrentTitleUnique ==
    \A a \in courses : \A b \in courses :
        (a.creator_id = b.creator_id /\ a.title = b.title) => a.id = b.id

\* C22: when no request is in progress every stored Video has a membership;
\* in particular the Video that two concurrent remove_video requests take out
\* of the two courses sharing it is gone once both have completed.
C22_NoOrphanVideoWhenQuiescent ==
    (\A w \in Workers : pc[w] = "idle") =>
        \A v \in videos : \E r \in vcs : r.video_id = v.id

=============================================================================
